---- MODULE Spec2Model ----
(***************************************************************************)
(* Model of the medistim-visualizer gauge core: the zone classifier        *)
(* (getZoneForValue over REFERENCE_RANGES) and the gauge math utilities    *)
(* (clampValue, valueToPercentage, percentageToAngle, valueToAngle,        *)
(* zoneToArcAngles, formatDisplayValue).                                   *)
(*                                                                         *)
(* A JavaScript number is modelled as a record [k, n, d]: k is "nan",      *)
(* "pinf", "ninf" or "fin"; a finite number is the exact rational n/d in   *)
(* lowest terms with d > 0.  Rounding error and overflow of IEEE doubles   *)
(* are not modelled; NaN and the infinities are, with the semantics the    *)
(* language gives to comparison, Math.min/Math.max and arithmetic.         *)
(* A string is modelled as a sequence of one-character strings, except     *)
(* the words "NaN" and "Infinity", which are single elements.              *)
(***************************************************************************)
EXTENDS Integers, Sequences, FiniteSets, TLC

(***************************************************************************)
(* Bounds of the model.                                                    *)
(***************************************************************************)
\* integer values are tried up to MaxOver below and above each end of a zone
MaxOver == 2
\* fractional values n/d are tried for 2 <= d <= MaxDen ...
MaxDen == 4
\* ... and -MaxNum <= n <= MaxNum
MaxNum == 14
\* range minima of the math utilities are tried in -MaxRangeMin..MaxRangeMin
MaxRangeMin == 1
\* the input screen takes at most MaxEdits text edits
MaxEdits == 2
\* decimalPlaces is tried in -1..MaxDecimalPlaces
MaxDecimalPlaces == 3
\* the error of Math.cos and Math.sin at a multiple of 90 degrees, about 6e-17
\* per quarter turn, is held as 1 / EpsDen per quarter turn
EpsDen == 1000000

(***************************************************************************)
(* JavaScript numbers.                                                     *)
(***************************************************************************)
AbsInt(i) == IF i < 0 THEN -i ELSE i

RECURSIVE GCD(_, _)
GCD(a, b) == IF b = 0 THEN a ELSE GCD(b, a % b)

\* the finite number n/d (d # 0), in lowest terms
Fin(n, d) ==
  LET g == GCD(AbsInt(n), AbsInt(d))
      s == IF d < 0 THEN -1 ELSE 1
  IN  [k |-> "fin", n |-> (s * n) \div g, d |-> (s * d) \div g]

Num(i) == [k |-> "fin", n |-> i, d |-> 1]

NaN == [k |-> "nan", n |-> 0, d |-> 1]

Infinity == [k |-> "pinf", n |-> 1, d |-> 1]

NegInfinity == [k |-> "ninf", n |-> -1, d |-> 1]

IsNaN(x) == x.k = "nan"

IsFinite(x) == x.k = "fin"

\* -1, 0 or 1: the sign of a number that is not NaN
Sign(x) ==
  IF x.k = "pinf" THEN 1
  ELSE IF x.k = "ninf" THEN -1
  ELSE IF x.n > 0 THEN 1 ELSE IF x.n < 0 THEN -1 ELSE 0

\* n1/d1 < n2/d2 for d1, d2 > 0, by whole parts and then the reciprocals of
\* the remainders, so that no product is formed
RECURSIVE BelowFrac(_, _, _, _)
BelowFrac(n1, d1, n2, d2) ==
  LET q1 == n1 \div d1
      q2 == n2 \div d2
      r1 == n1 - q1 * d1
      r2 == n2 - q2 * d2
  IN  IF q1 # q2 THEN q1 < q2
      ELSE IF r2 = 0 THEN FALSE
      ELSE IF r1 = 0 THEN TRUE
      ELSE BelowFrac(d2, r2, d1, r1)

\* a < b on numbers that are not NaN
Below(a, b) ==
  IF a.k = "fin" /\ b.k = "fin" THEN BelowFrac(a.n, a.d, b.n, b.d)
  ELSE IF a.k = b.k THEN FALSE
  ELSE a.k = "ninf" \/ b.k = "pinf"

\* the relational operators: every comparison with NaN is false
Lt(a, b) == ~IsNaN(a) /\ ~IsNaN(b) /\ Below(a, b)

Gt(a, b) == Lt(b, a)

Le(a, b) == ~IsNaN(a) /\ ~IsNaN(b) /\ ~Below(b, a)

Ge(a, b) == Le(b, a)

\* a === b
StrictEq(a, b) == ~IsNaN(a) /\ ~IsNaN(b) /\ a = b

\* Math.min(a, b) and Math.max(a, b): NaN if either argument is NaN
MathMin(a, b) ==
  IF IsNaN(a) \/ IsNaN(b) THEN NaN ELSE IF Below(b, a) THEN b ELSE a

MathMax(a, b) ==
  IF IsNaN(a) \/ IsNaN(b) THEN NaN ELSE IF Below(a, b) THEN b ELSE a

\* -a
Neg(a) ==
  IF IsNaN(a) THEN NaN
  ELSE IF a.k = "pinf" THEN NegInfinity
  ELSE IF a.k = "ninf" THEN Infinity
  ELSE Fin(-a.n, a.d)

\* a + b: Infinity + -Infinity is NaN
Add(a, b) ==
  IF IsNaN(a) \/ IsNaN(b) THEN NaN
  ELSE IF a.k = "fin" /\ b.k = "fin" THEN Fin(a.n * b.d + b.n * a.d, a.d * b.d)
  ELSE IF a.k = "fin" THEN b
  ELSE IF b.k = "fin" THEN a
  ELSE IF a.k = b.k THEN a ELSE NaN

\* a - b
Sub(a, b) == Add(a, Neg(b))

\* a * b: 0 * Infinity is NaN
Mul(a, b) ==
  IF IsNaN(a) \/ IsNaN(b) THEN NaN
  ELSE IF a.k = "fin" /\ b.k = "fin" THEN Fin(a.n * b.n, a.d * b.d)
  ELSE IF Sign(a) * Sign(b) = 0 THEN NaN
  ELSE IF Sign(a) * Sign(b) > 0 THEN Infinity ELSE NegInfinity

\* a / b: x / 0 is an infinity of the sign of x, 0 / 0 and Infinity / Infinity
\* are NaN, and a finite number over an infinity is 0
Div(a, b) ==
  IF IsNaN(a) \/ IsNaN(b) THEN NaN
  ELSE IF a.k = "fin" /\ b.k = "fin" THEN
    IF b.n # 0 THEN Fin(a.n * b.d, a.d * b.n)
    ELSE IF a.n = 0 THEN NaN
    ELSE IF a.n > 0 THEN Infinity ELSE NegInfinity
  ELSE IF a.k # "fin" /\ b.k # "fin" THEN NaN
  ELSE IF a.k = "fin" THEN Num(0)
  ELSE IF Sign(a) * (IF Sign(b) < 0 THEN -1 ELSE 1) > 0 THEN Infinity
  ELSE NegInfinity

\* Math.abs(a)
MathAbs(a) == IF IsNaN(a) THEN NaN ELSE IF Sign(a) < 0 THEN Neg(a) ELSE a

(***************************************************************************)
(* Math.cos and Math.sin.  An angle in radians is held as a multiple of pi *)
(* (so that Math.PI / 180 is 1/180).  At a multiple q of a quarter turn    *)
(* the argument the code passes is the double nearest to q * pi / 2, which *)
(* is below it by about q * 6.1e-17, and the result is off the exact 0 by  *)
(* that much: Math.sin(Math.PI) is 1.2246e-16 and Math.cos(Math.PI / 2) is *)
(* 6.1232e-17 (the signs below are those of the doubles for |q| <= 8).     *)
(* Between two quarter turns the values are irrational; the model takes    *)
(* the chord between the exact values at the two quarter turns.            *)
(***************************************************************************)
TrigEps(q) == Fin(q, EpsDen)

\* the exact cosine and sine at q quarter turns
QuarterCos(q) == <<1, 0, -1, 0>>[(q % 4) + 1]

QuarterSin(q) == <<0, 1, 0, -1>>[(q % 4) + 1]

\* the value on the chord between the quarter turns around q
Chord(lo, hi, q) ==
  LET whole == Num(q.n \div q.d)
  IN  Add(Num(lo), Mul(Sub(q, whole), Num(hi - lo)))

MathCos(x) ==
  IF x.k # "fin" THEN NaN
  ELSE LET q == Mul(x, Num(2))
           w == q.n \div q.d
       IN  IF q.d # 1 THEN Chord(QuarterCos(w), QuarterCos(w + 1), q)
           ELSE IF q.n % 2 = 0 THEN Num(QuarterCos(q.n))
           ELSE IF AbsInt(q.n) % 4 = 1 THEN TrigEps(AbsInt(q.n))
           ELSE TrigEps(-AbsInt(q.n))

MathSin(x) ==
  IF x.k # "fin" THEN NaN
  ELSE LET q == Mul(x, Num(2))
           w == q.n \div q.d
       IN  IF q.d # 1 THEN Chord(QuarterSin(w), QuarterSin(w + 1), q)
           ELSE IF q.n % 2 = 1 THEN Num(QuarterSin(q.n))
           ELSE IF q.n % 4 = 2 THEN TrigEps(q.n)
           ELSE TrigEps(-q.n)

\* Number.isInteger(x)
NumberIsInteger(x) == x.k = "fin" /\ x.d = 1

\* a variant of MathRound: the fraction is cut off (Math.trunc)
MathRoundTruncates(x) ==
  IF x.k # "fin" THEN x
  ELSE IF x.n >= 0 THEN Num(x.n \div x.d) ELSE Num(-((-x.n) \div x.d))

\* Math.round(x): the nearest integer, a tie going up (toward +Infinity)
MathRound(x) ==
  IF x.k # "fin" THEN x ELSE Num((2 * x.n + x.d) \div (2 * x.d))

(***************************************************************************)
(* Strings of digits.                                                      *)
(***************************************************************************)
DigitChar(i) == <<"0", "1", "2", "3", "4", "5", "6", "7", "8", "9">>[i + 1]

\* the decimal digits of a natural number
RECURSIVE Digits(_)
Digits(i) == IF i < 10 THEN <<DigitChar(i)>> ELSE Digits(i \div 10) \o <<DigitChar(i % 10)>>

RECURSIVE Pow10(_)
Pow10(f) == IF f = 0 THEN 1 ELSE 10 * Pow10(f - 1)

RECURSIVE Zeros(_)
Zeros(c) == IF c <= 0 THEN <<>> ELSE <<"0">> \o Zeros(c - 1)

\* x.toString() for x as Math.round returns it: an integer, NaN or an infinity
NumberToString(x) ==
  IF x.k = "nan" THEN <<"NaN">>
  ELSE IF x.k = "pinf" THEN <<"Infinity">>
  ELSE IF x.k = "ninf" THEN <<"-", "Infinity">>
  ELSE IF x.n < 0 THEN <<"-">> \o Digits(-x.n) ELSE Digits(x.n)

\* the outcome of a call that returns a string or throws
Returned(s) == [threw |-> FALSE, text |-> s]

Thrown == [threw |-> TRUE, text |-> <<>>]

\* x.toFixed(fractionDigits): a RangeError outside 0..100; the sign is taken
\* first, then n is the integer nearest to |x| * 10^f, the larger on a tie,
\* written with at least f + 1 digits and a point before the last f
NumberToFixed(x, fractionDigits) ==
  IF fractionDigits < 0 \/ fractionDigits > 100 THEN Thrown
  ELSE IF x.k # "fin" THEN Returned(NumberToString(x))
  ELSE
    LET f    == fractionDigits
        sign == IF x.n < 0 THEN <<"-">> ELSE <<>>
        a    == AbsInt(x.n)
        n    == (2 * a * Pow10(f) + x.d) \div (2 * x.d)
        m    == Digits(n)
        pad  == Zeros(f + 1 - Len(m)) \o m
        k    == Len(pad)
    IN  IF f = 0 THEN Returned(sign \o m)
        ELSE Returned(sign \o SubSeq(pad, 1, k - f) \o <<".">> \o SubSeq(pad, k - f + 1, k))

(***************************************************************************)
(* The reference ranges (unit and label are display strings the core       *)
(* never reads, and are left out).                                         *)
(***************************************************************************)
METRIC_KEYS == <<"MF", "PI", "DF", "BF", "ACI", "MAP">>

MetricKey == {METRIC_KEYS[i] : i \in DOMAIN METRIC_KEYS}

Zone(start, end, type) == [start |-> Num(start), end |-> Num(end), type |-> type]

MetricRange(min, max, zones) == [min |-> Num(min), max |-> Num(max), zones |-> zones]

\* a variant of REFERENCE_RANGES: the second zone of MF starts at 20
ReferenceRangesWithGap ==
  [key \in MetricKey |->
    CASE key = "MF"  -> MetricRange(0, 200,
                          <<Zone(0, 15, "red"), Zone(20, 30, "yellow"), Zone(30, 200, "green")>>)
      [] key = "PI"  -> MetricRange(0, 10,
                          <<Zone(0, 3, "green"), Zone(3, 5, "yellow"), Zone(5, 10, "red")>>)
      [] key = "DF"  -> MetricRange(0, 100,
                          <<Zone(0, 50, "red"), Zone(50, 70, "yellow"), Zone(70, 100, "green")>>)
      [] key = "BF"  -> MetricRange(0, 50,
                          <<Zone(0, 3, "green"), Zone(3, 10, "yellow"), Zone(10, 50, "red")>>)
      [] key = "ACI" -> MetricRange(0, 100,
                          <<Zone(0, 50, "red"), Zone(50, 80, "yellow"), Zone(80, 100, "green")>>)
      [] key = "MAP" -> MetricRange(0, 200,
                          <<Zone(0, 60, "red"), Zone(60, 70, "yellow"), Zone(70, 105, "green"),
                            Zone(105, 120, "yellow"), Zone(120, 200, "red")>>)]

REFERENCE_RANGES ==
  [key \in MetricKey |->
    CASE key = "MF"  -> MetricRange(0, 200,
                          <<Zone(0, 15, "red"), Zone(15, 30, "yellow"), Zone(30, 200, "green")>>)
      [] key = "PI"  -> MetricRange(0, 10,
                          <<Zone(0, 3, "green"), Zone(3, 5, "yellow"), Zone(5, 10, "red")>>)
      [] key = "DF"  -> MetricRange(0, 100,
                          <<Zone(0, 50, "red"), Zone(50, 70, "yellow"), Zone(70, 100, "green")>>)
      [] key = "BF"  -> MetricRange(0, 50,
                          <<Zone(0, 3, "green"), Zone(3, 10, "yellow"), Zone(10, 50, "red")>>)
      [] key = "ACI" -> MetricRange(0, 100,
                          <<Zone(0, 50, "red"), Zone(50, 80, "yellow"), Zone(80, 100, "green")>>)
      [] key = "MAP" -> MetricRange(0, 200,
                          <<Zone(0, 60, "red"), Zone(60, 70, "yellow"), Zone(70, 105, "green"),
                            Zone(105, 120, "yellow"), Zone(120, 200, "red")>>)]

\* the unit of each range: the display string GaugeCard passes to getDecimalPlaces
RangeUnit ==
  [key \in MetricKey |->
    CASE key = "MF"  -> "mL/min"
      [] key = "PI"  -> ""
      [] key = "DF"  -> "%"
      [] key = "BF"  -> "%"
      [] key = "ACI" -> "%"
      [] key = "MAP" -> "mmHg"]

(***************************************************************************)
(* The zone classifier.                                                    *)
(***************************************************************************)
\* a variant of ZoneMatches: the zone's end is not tested
ZoneMatchesStartOnly(zone, clampedValue) == Ge(clampedValue, zone.start)

\* a variant of ZoneMatches: the zone's end is excluded
ZoneMatchesEndExcluded(zone, clampedValue) ==
  Ge(clampedValue, zone.start) /\ Lt(clampedValue, zone.end)

\* the test of the loop: clampedValue >= zone.start && clampedValue <= zone.end
ZoneMatches(zone, clampedValue) ==
  Ge(clampedValue, zone.start) /\ Le(clampedValue, zone.end)

\* a variant of ZoneLoop: the fallback is 'green'
RECURSIVE ZoneLoopFallbackGreen(_, _)
ZoneLoopFallbackGreen(zones, clampedValue) ==
  IF zones = <<>> THEN "green"
  ELSE IF ZoneMatches(Head(zones), clampedValue) THEN Head(zones).type
  ELSE ZoneLoopFallbackGreen(Tail(zones), clampedValue)

\* the for loop over range.zones, and the fallback after it
RECURSIVE ZoneLoop(_, _)
ZoneLoop(zones, clampedValue) ==
  IF zones = <<>> THEN "red"
  ELSE IF ZoneMatches(Head(zones), clampedValue) THEN Head(zones).type
  ELSE ZoneLoop(Tail(zones), clampedValue)

\* whether the for loop ends without a return, so that the fallback is reached
RECURSIVE ZoneLoopFallsThrough(_, _)
ZoneLoopFallsThrough(zones, clampedValue) ==
  IF zones = <<>> THEN TRUE
  ELSE IF ZoneMatches(Head(zones), clampedValue) THEN FALSE
  ELSE ZoneLoopFallsThrough(Tail(zones), clampedValue)

\* a variant of ClampedValue: the value is not clamped
ClampedValueUnclamped(range, value) == value

\* const clampedValue = Math.max(range.min, Math.min(range.max, value))
ClampedValue(range, value) == MathMax(range.min, MathMin(range.max, value))

\* the body of getZoneForValue, for the range the key was looked up to
ZoneInRange(range, value) == ZoneLoop(range.zones, ClampedValue(range, value))

getZoneForValue(metricKey, value) == ZoneInRange(REFERENCE_RANGES[metricKey], value)

\* whether that call of getZoneForValue returns from its last line
ReachesFallback(metricKey, value) ==
  LET range == REFERENCE_RANGES[metricKey]
  IN  ZoneLoopFallsThrough(range.zones, ClampedValue(range, value))

(***************************************************************************)
(* The gauge math.                                                         *)
(***************************************************************************)
\* a variant of clampValue: the two bounds are exchanged
clampValueBoundsExchanged(value, min, max) == MathMin(min, MathMax(max, value))

clampValue(value, min, max) == MathMax(min, MathMin(max, value))

\* a variant of valueToPercentage: no test for the degenerate range
valueToPercentageUnguarded(value, min, max) ==
  Div(Sub(clampValue(value, min, max), min), Sub(max, min))

valueToPercentage(value, min, max) ==
  IF StrictEq(max, min) THEN Num(0)
  ELSE Div(Sub(clampValue(value, min, max), min), Sub(max, min))

\* a variant of percentageToAngle: the angle grows with the percentage
percentageToAngleRising(percentage) ==
  Mul(clampValue(percentage, Num(0), Num(1)), Num(180))

percentageToAngle(percentage) ==
  LET clampedPercentage == clampValue(percentage, Num(0), Num(1))
  IN  Sub(Num(180), Mul(clampedPercentage, Num(180)))

valueToAngle(value, min, max) == percentageToAngle(valueToPercentage(value, min, max))

\* a variant of zoneToArcAngles: the two angles are exchanged
zoneToArcAnglesExchanged(zoneStart, zoneEnd, rangeMin, rangeMax) ==
  [startAngle |-> valueToAngle(zoneEnd, rangeMin, rangeMax),
   endAngle   |-> valueToAngle(zoneStart, rangeMin, rangeMax)]

zoneToArcAngles(zoneStart, zoneEnd, rangeMin, rangeMax) ==
  [startAngle |-> valueToAngle(zoneStart, rangeMin, rangeMax),
   endAngle   |-> valueToAngle(zoneEnd, rangeMin, rangeMax)]

\* const DEG_TO_RAD = Math.PI / 180, as a multiple of pi
DEG_TO_RAD == Fin(1, 180)

\* a variant of polarToCartesian: the y contribution is added
polarToCartesianYAdded(centerX, centerY, radius, angleInDegrees) ==
  LET angleInRadians == Mul(angleInDegrees, DEG_TO_RAD)
  IN  [x |-> Add(centerX, Mul(radius, MathCos(angleInRadians))),
       y |-> Add(centerY, Mul(radius, MathSin(angleInRadians)))]

polarToCartesian(centerX, centerY, radius, angleInDegrees) ==
  LET angleInRadians == Mul(angleInDegrees, DEG_TO_RAD)
  IN  [x |-> Add(centerX, Mul(radius, MathCos(angleInRadians))),
       y |-> Sub(centerY, Mul(radius, MathSin(angleInRadians)))]

\* the pieces of a path string: a command letter, or a number as `${...}`
\* writes it
PathCommand(c) == [cmd |-> c, num |-> Num(0)]

PathNumber(x) == [cmd |-> "", num |-> x]

\* `M ${start.x} ${start.y} A ${radius} ${radius} 0 ${largeArcFlag} ${sweepFlag} ${end.x} ${end.y}`
ArcPath(start, radius, largeArcFlag, sweepFlag, end) ==
  <<PathCommand("M"), PathNumber(start.x), PathNumber(start.y),
    PathCommand("A"), PathNumber(radius), PathNumber(radius), PathNumber(Num(0)),
    PathNumber(Num(largeArcFlag)), PathNumber(Num(sweepFlag)),
    PathNumber(end.x), PathNumber(end.y)>>

\* a variant of describeArc: the large-arc flag is set from a span of 180 on
describeArcFlagFrom180(centerX, centerY, radius, startAngleDeg, endAngleDeg) ==
  LET start == polarToCartesian(centerX, centerY, radius, startAngleDeg)
      end == polarToCartesian(centerX, centerY, radius, endAngleDeg)
      angularSpan == MathAbs(Sub(startAngleDeg, endAngleDeg))
      largeArcFlag == IF Ge(angularSpan, Num(180)) THEN 1 ELSE 0
  IN  ArcPath(start, radius, largeArcFlag, 0, end)

describeArc(centerX, centerY, radius, startAngleDeg, endAngleDeg) ==
  LET start == polarToCartesian(centerX, centerY, radius, startAngleDeg)
      end == polarToCartesian(centerX, centerY, radius, endAngleDeg)
      angularSpan == MathAbs(Sub(startAngleDeg, endAngleDeg))
      largeArcFlag == IF Gt(angularSpan, Num(180)) THEN 1 ELSE 0
      sweepFlag == 0
  IN  ArcPath(start, radius, largeArcFlag, sweepFlag, end)

calculateNeedlePosition(value, min, max, centerX, centerY, length) ==
  LET angle == valueToAngle(value, min, max)
      tip == polarToCartesian(centerX, centerY, length, angle)
  IN  [tipX |-> tip.x, tipY |-> tip.y, angle |-> angle]

\* the statement after the return is never reached
describeFullArc(centerX, centerY, radius) ==
  describeArc(centerX, centerY, radius, Num(180), Num(0))

\* the default of the parameter decimalPlaces
DefaultDecimalPlaces == 1

formatDisplayValue(value, decimalPlaces) ==
  IF NumberIsInteger(value) \/ decimalPlaces = 0
  THEN Returned(NumberToString(MathRound(value)))
  ELSE NumberToFixed(value, decimalPlaces)

(***************************************************************************)
(* The components Gauge and GaugeCard: what a render computes from the     *)
(* props.                                                                  *)
(***************************************************************************)
\* const percentage = Math.max(0, Math.min(100, ((value - min) / (max - min)) * 100))
GaugePercentage(value, min, max) ==
  MathMax(Num(0), MathMin(Num(100), Mul(Div(Sub(value, min), Sub(max, min)), Num(100))))

\* zones.map(...): the scale of each segment, its colour (named by the zone
\* type) and its data
GaugeSegments(min, max, zones) ==
  [i \in DOMAIN zones |->
    LET zoneRange == Sub(zones[i].end, zones[i].start)
        totalRange == Sub(max, min)
    IN  [scale |-> Div(zoneRange, totalRange), filledColor |-> zones[i].type,
         start |-> zones[i].start, end |-> zones[i].end]]

\* what Gauge hands to SegmentedArc
Gauge(value, min, max, zones) ==
  [fillValue |-> GaugePercentage(value, min, max),
   segments |-> GaugeSegments(min, max, zones)]

getDecimalPlaces(unit) == IF unit = "" THEN 1 ELSE 0

\* what GaugeCard computes for a metric: the zone of the value colour, the
\* text of the value and the props of its Gauge
GaugeCard(metricKey, value) ==
  LET range == REFERENCE_RANGES[metricKey]
  IN  [zone |-> getZoneForValue(metricKey, value),
       displayValue |-> formatDisplayValue(value, getDecimalPlaces(RangeUnit[metricKey])),
       gauge |-> Gauge(value, range.min, range.max, range.zones)]

(***************************************************************************)
(* The arguments the functions are called with.                            *)
(***************************************************************************)
\* the ends of the configured zones
ZoneEnds ==
  UNION {{REFERENCE_RANGES[key].zones[i].start : i \in DOMAIN REFERENCE_RANGES[key].zones}
           \cup {REFERENCE_RANGES[key].zones[i].end : i \in DOMAIN REFERENCE_RANGES[key].zones} :
         key \in MetricKey}

\* the integers within MaxOver of an end of a configured zone
IntegerValues == {Num(e.n + i) : e \in ZoneEnds, i \in -MaxOver .. MaxOver}

FractionValues == {Fin(n, d) : n \in -MaxNum .. MaxNum, d \in 2 .. MaxDen}

\* 3.456, the value of the documented formatting examples
ExampleValue == Fin(432, 125)

\* the values of the documented scenarios
ScenarioValues == {Num(10), Num(110), ExampleValue}

NonFiniteValues == {NaN, Infinity, NegInfinity}

Values == IntegerValues \cup FractionValues \cup ScenarioValues \cup NonFiniteValues

Percentages == FractionValues \cup NonFiniteValues

\* the zone ends zoneToArcAngles is called with
ZoneArgs == ZoneEnds \cup NonFiniteValues

RangeMins == {Num(i) : i \in -MaxRangeMin .. MaxRangeMin}

RangeMaxs == RangeMins \cup {REFERENCE_RANGES[key].max : key \in MetricKey}

DecimalPlaces == -1 .. MaxDecimalPlaces

\* centres, radii and angles of the arc geometry: the multiples of 90 degrees
\* of two turns, two angles between them, and the non-finite numbers
Coordinates == {Num(0), Num(100)}

\* the zone tables a Gauge is rendered with: one of three zones, one of five
GaugeZones == {REFERENCE_RANGES[key].zones : key \in {"MF", "MAP"}}

Radii == {Num(1), Num(80)}

Angles == {Num(90 * q) : q \in -4 .. 4} \cup {Num(45), Num(171)} \cup NonFiniteValues

(***************************************************************************)
(* State: the last call made and what it returned.                         *)
(***************************************************************************)
\* the input state of the form: the text of each metric, empty at first
DEFAULT_INPUT_STATE == [key \in MetricKey |-> <<>>]

\* a URL parameter of the results route: a string, or undefined when the URL
\* does not carry it, or an array when the URL carries it twice
StringParam(text) == [type |-> "string", text |-> text]

UndefinedParam == [type |-> "undefined", text |-> <<>>]

ArrayParam == [type |-> "object", text |-> <<>>]

NoParams == [key \in MetricKey |-> UndefinedParam]

\* call and ret: the last call of a function of the library and its result.
\* stack: the routes of the Stack navigator, the screen shown last;
\* inputState: the state of InputScreen; params: the parameters of the
\* results route; edits: the text edits made so far, in order.
VARIABLES call, ret, stack, inputState, params, edits

appVars == <<stack, inputState, params, edits>>

vars == <<call, ret, stack, inputState, params, edits>>

NoCall ==
  [op |-> "none", metricKey |-> "MF", value |-> Num(0), min |-> Num(0), max |-> Num(0),
   zoneEnd |-> Num(0), decimalPlaces |-> 0, defaulted |-> FALSE,
   centerX |-> Num(0), centerY |-> Num(0), radius |-> Num(0)]

NoRet ==
  [threw |-> FALSE, zone |-> "none", num |-> Num(0), endAngle |-> Num(0), text |-> <<>>,
   x |-> Num(0), y |-> Num(0), path |-> <<>>, fallback |-> FALSE, segments |-> <<>>]

Init ==
  /\ call = NoCall /\ ret = NoRet
  /\ stack = <<"/">>
  /\ inputState = DEFAULT_INPUT_STATE
  /\ params = NoParams
  /\ edits = <<>>

\* the functions keep no state between calls: a behaviour makes one call
Idle == call.op = "none"

CallGetZoneForValue ==
  /\ Idle
  /\ UNCHANGED appVars
  /\ \E metricKey \in MetricKey, value \in Values :
    /\ call' = [NoCall EXCEPT !.op = "getZoneForValue", !.metricKey = metricKey,
                              !.value = value]
    /\ ret' = [NoRet EXCEPT !.zone = getZoneForValue(metricKey, value),
                            !.fallback = ReachesFallback(metricKey, value)]

CallClampValue ==
  /\ Idle
  /\ UNCHANGED appVars
  /\ \E value \in Values, min \in RangeMins, max \in RangeMaxs :
    /\ call' = [NoCall EXCEPT !.op = "clampValue", !.value = value, !.min = min, !.max = max]
    /\ ret' = [NoRet EXCEPT !.num = clampValue(value, min, max)]

CallValueToPercentage ==
  /\ Idle
  /\ UNCHANGED appVars
  /\ \E value \in Values, min \in RangeMins, max \in RangeMaxs :
    /\ call' = [NoCall EXCEPT !.op = "valueToPercentage", !.value = value, !.min = min,
                              !.max = max]
    /\ ret' = [NoRet EXCEPT !.num = valueToPercentage(value, min, max)]

CallPercentageToAngle ==
  /\ Idle
  /\ UNCHANGED appVars
  /\ \E percentage \in Percentages :
    /\ call' = [NoCall EXCEPT !.op = "percentageToAngle", !.value = percentage]
    /\ ret' = [NoRet EXCEPT !.num = percentageToAngle(percentage)]

CallValueToAngle ==
  /\ Idle
  /\ UNCHANGED appVars
  /\ \E value \in Values, min \in RangeMins, max \in RangeMaxs :
    /\ call' = [NoCall EXCEPT !.op = "valueToAngle", !.value = value, !.min = min,
                              !.max = max]
    /\ ret' = [NoRet EXCEPT !.num = valueToAngle(value, min, max)]

CallZoneToArcAngles ==
  /\ Idle
  /\ UNCHANGED appVars
  /\ \E zoneStart \in ZoneArgs, zoneEnd \in ZoneArgs, rangeMin \in RangeMins,
     rangeMax \in RangeMaxs :
    LET angles == zoneToArcAngles(zoneStart, zoneEnd, rangeMin, rangeMax)
    IN  /\ call' = [NoCall EXCEPT !.op = "zoneToArcAngles", !.value = zoneStart,
                                  !.zoneEnd = zoneEnd, !.min = rangeMin, !.max = rangeMax]
        /\ ret' = [NoRet EXCEPT !.num = angles.startAngle, !.endAngle = angles.endAngle]

\* formatDisplayValue(value, decimalPlaces), or formatDisplayValue(value) with
\* the default decimalPlaces
CallFormatDisplayValue ==
  /\ Idle
  /\ UNCHANGED appVars
  /\ \E value \in Values, given \in DecimalPlaces, defaulted \in BOOLEAN :
    LET decimalPlaces == IF defaulted THEN DefaultDecimalPlaces ELSE given
        out == formatDisplayValue(value, decimalPlaces)
    IN  /\ call' = [NoCall EXCEPT !.op = "formatDisplayValue", !.value = value,
                                  !.decimalPlaces = decimalPlaces, !.defaulted = defaulted]
        /\ ret' = [NoRet EXCEPT !.threw = out.threw, !.text = out.text]

CallPolarToCartesian ==
  /\ Idle
  /\ UNCHANGED appVars
  /\ \E centerX \in Coordinates, centerY \in Coordinates, radius \in Radii,
        angleInDegrees \in Angles :
       LET point == polarToCartesian(centerX, centerY, radius, angleInDegrees)
       IN  /\ call' = [NoCall EXCEPT !.op = "polarToCartesian", !.centerX = centerX,
                                     !.centerY = centerY, !.radius = radius,
                                     !.value = angleInDegrees]
           /\ ret' = [NoRet EXCEPT !.x = point.x, !.y = point.y]

CallDescribeArc ==
  /\ Idle
  /\ UNCHANGED appVars
  /\ \E centerX \in Coordinates, centerY \in Coordinates, radius \in Radii,
        startAngleDeg \in Angles, endAngleDeg \in Angles :
       /\ call' = [NoCall EXCEPT !.op = "describeArc", !.centerX = centerX,
                                 !.centerY = centerY, !.radius = radius,
                                 !.value = startAngleDeg, !.zoneEnd = endAngleDeg]
       /\ ret' = [NoRet EXCEPT !.path = describeArc(centerX, centerY, radius,
                                                    startAngleDeg, endAngleDeg)]

CallCalculateNeedlePosition ==
  /\ Idle
  /\ UNCHANGED appVars
  /\ \E value \in Values, min \in RangeMins, max \in RangeMaxs,
        center \in Coordinates, length \in Radii :
       LET needle == calculateNeedlePosition(value, min, max, center, center, length)
       IN  /\ call' = [NoCall EXCEPT !.op = "calculateNeedlePosition", !.value = value,
                                     !.min = min, !.max = max, !.centerX = center,
                                     !.centerY = center, !.radius = length]
           /\ ret' = [NoRet EXCEPT !.x = needle.tipX, !.y = needle.tipY,
                                   !.num = needle.angle]

CallDescribeFullArc ==
  /\ Idle
  /\ UNCHANGED appVars
  /\ \E centerX \in Coordinates, centerY \in Coordinates, radius \in Radii :
       /\ call' = [NoCall EXCEPT !.op = "describeFullArc", !.centerX = centerX,
                                 !.centerY = centerY, !.radius = radius]
       /\ ret' = [NoRet EXCEPT !.path = describeFullArc(centerX, centerY, radius)]

\* a render of Gauge
CallGauge ==
  /\ Idle
  /\ UNCHANGED appVars
  /\ \E value \in Values, min \in RangeMins, max \in RangeMaxs, zones \in GaugeZones :
       LET out == Gauge(value, min, max, zones)
       IN  /\ call' = [NoCall EXCEPT !.op = "Gauge", !.value = value, !.min = min,
                                     !.max = max]
           /\ ret' = [NoRet EXCEPT !.num = out.fillValue, !.segments = out.segments]

\* a render of GaugeCard, with the range of its metric
CallGaugeCard ==
  /\ Idle
  /\ UNCHANGED appVars
  /\ \E metricKey \in MetricKey, value \in Values :
       LET range == REFERENCE_RANGES[metricKey]
           out == GaugeCard(metricKey, value)
       IN  /\ call' = [NoCall EXCEPT !.op = "GaugeCard", !.metricKey = metricKey,
                                     !.value = value, !.min = range.min, !.max = range.max]
           /\ ret' = [NoRet EXCEPT !.zone = out.zone, !.threw = out.displayValue.threw,
                                   !.text = out.displayValue.text,
                                   !.num = out.gauge.fillValue,
                                   !.segments = out.gauge.segments]

Next ==
  \/ CallGetZoneForValue
  \/ CallClampValue
  \/ CallValueToPercentage
  \/ CallPercentageToAngle
  \/ CallValueToAngle
  \/ CallZoneToArcAngles
  \/ CallFormatDisplayValue
  \/ CallPolarToCartesian
  \/ CallDescribeArc
  \/ CallCalculateNeedlePosition
  \/ CallDescribeFullArc
  \/ CallGauge
  \/ CallGaugeCard

Spec == Init /\ [][Next]_vars

(***************************************************************************)
(* Properties of the zone classifier.                                      *)
(***************************************************************************)
\* x brought into [lo, hi]: hi above it, lo below it, x itself otherwise
Nearest(x, lo, hi) == IF Gt(x, hi) THEN hi ELSE IF Lt(x, lo) THEN lo ELSE x

\* x lies in the closed interval of the zone
Inside(zone, x) == Le(zone.start, x) /\ Le(x, zone.end)

\* the indices of the zones of the range that contain the value, once clamped
Containing(range, value) ==
  {i \in DOMAIN range.zones : Inside(range.zones[i], Nearest(value, range.min, range.max))}

Least(S) == CHOOSE i \in S : \A j \in S : i <= j

\* C1: for a configured metric, a value above max is given the category of max
\* and a value below min the category of min.
C1_OutsideAsBoundary ==
  call.op = "getZoneForValue" =>
    LET range == REFERENCE_RANGES[call.metricKey]
    IN  /\ Gt(call.value, range.max) =>
             ret.zone = getZoneForValue(call.metricKey, range.max)
        /\ Lt(call.value, range.min) =>
             ret.zone = getZoneForValue(call.metricKey, range.min)

\* C1 witness: a value above the max of Mean Flow is classified as max is.
C1_Witness ==
  /\ call.op = "getZoneForValue"
  /\ call.metricKey = "MF"
  /\ Gt(call.value, REFERENCE_RANGES["MF"].max)
  /\ ret.zone = "green"

\* C2: the category returned is that of the first zone, in table order, whose
\* closed interval contains the clamped value; DF 50 is red and MAP 110 yellow.
C2_FirstMatchWins ==
  call.op = "getZoneForValue" =>
    LET range == REFERENCE_RANGES[call.metricKey]
        hits  == Containing(range, call.value)
    IN  /\ hits # {} => ret.zone = range.zones[Least(hits)].type
        /\ (call.metricKey = "DF" /\ call.value = Num(50)) => ret.zone = "red"
        /\ (call.metricKey = "MAP" /\ call.value = Num(110)) => ret.zone = "yellow"

\* C2 witness: 50, on the boundary of two zones of DF, is given the earlier one.
C2_Witness ==
  /\ call.op = "getZoneForValue"
  /\ call.metricKey = "DF"
  /\ call.value = Num(50)
  /\ Cardinality(Containing(REFERENCE_RANGES["DF"], call.value)) = 2
  /\ ret.zone = "red"

\* zone tables that do not cover their range: a gap between two zones, only
\* the upper half covered, and no zone at all
NonCoveringRanges ==
  { MetricRange(0, 200, <<Zone(0, 15, "green"), Zone(30, 200, "green")>>),
    MetricRange(0, 100, <<Zone(50, 100, "green")>>),
    MetricRange(0, 100, <<>>) }

\* C3: when no zone contains the clamped value the classifier returns 'red'
\* and does not throw; so it does for a zone table that does not cover its range.
C3_FallbackRed ==
  call.op = "getZoneForValue" =>
    /\ ~ret.threw
    /\ Containing(REFERENCE_RANGES[call.metricKey], call.value) = {} => ret.zone = "red"
    /\ \A range \in NonCoveringRanges :
         Containing(range, call.value) = {} => ZoneInRange(range, call.value) = "red"

\* C3 witness: a call whose clamped value no zone contains, of the metric's
\* table and of a non-covering table, returns 'red'.
C3_Witness ==
  /\ call.op = "getZoneForValue"
  /\ Containing(REFERENCE_RANGES[call.metricKey], call.value) = {}
  /\ \E range \in NonCoveringRanges : Containing(range, call.value) = {}
  /\ ret.zone = "red"

\* C4: a non-finite value (NaN, Infinity, -Infinity) is classified 'red'.
C4_NonFiniteIsRed ==
  (call.op = "getZoneForValue" /\ ~IsFinite(call.value)) => ret.zone = "red"

(***************************************************************************)
(* Properties of the gauge math.                                           *)
(***************************************************************************)
\* C5: for min < max, a value <= min has percentage 0 and angle 180, a value
\* >= max has percentage 1 and angle 0, and every percentage lies in [0, 1].
C5_EndsAndUnitInterval ==
  Lt(call.min, call.max) =>
    /\ call.op = "valueToPercentage" =>
         /\ Le(call.value, call.min) => ret.num = Num(0)
         /\ Ge(call.value, call.max) => ret.num = Num(1)
         /\ Le(Num(0), ret.num) /\ Le(ret.num, Num(1))
    /\ call.op = "valueToAngle" =>
         /\ Le(call.value, call.min) => ret.num = Num(180)
         /\ Ge(call.value, call.max) => ret.num = Num(0)

\* C5, the part the code keeps: the same for every value that is not NaN.
C5_HoldsUnlessNaN == ~IsNaN(call.value) => C5_EndsAndUnitInterval

\* C6: for min < max the angle does not increase with the value: a value
\* v2 >= v1, inside or outside [min, max], has an angle <= that of v1.
C6_AngleNonIncreasing ==
  (call.op = "valueToAngle" /\ Lt(call.min, call.max)) =>
    \A v2 \in Values :
      Le(call.value, v2) => Ge(ret.num, valueToAngle(v2, call.min, call.max))

\* C6 witness: a value strictly inside the range, with an angle strictly
\* between those of the two ends.
C6_Witness ==
  /\ call.op = "valueToAngle"
  /\ Lt(call.min, call.value) /\ Lt(call.value, call.max)
  /\ Lt(ret.num, valueToAngle(call.min, call.min, call.max))
  /\ Gt(ret.num, valueToAngle(call.max, call.min, call.max))

\* C7: for max = min, valueToPercentage returns 0 for every value (no quotient
\* by zero, nothing thrown) and valueToAngle returns 180.
C7_DegenerateRange ==
  call.max = call.min =>
    /\ call.op = "valueToPercentage" => ret.num = Num(0) /\ ~ret.threw
    /\ call.op = "valueToAngle" => ret.num = Num(180) /\ ~ret.threw

\* C7 witness: a value other than min, on a range with max = min, gets 0.
C7_Witness ==
  /\ call.op = "valueToPercentage"
  /\ call.max = call.min
  /\ call.value # call.min
  /\ ret.num = Num(0)

\* C8: percentageToAngle(p) is 180 - 180 * clamp(p, 0, 1) for every p, so it
\* lies in [0, 180]; p = 0 gives 180 and p = 1 gives 0.
C8_AngleOfPercentage ==
  call.op = "percentageToAngle" =>
    /\ ret.num = Sub(Num(180), Mul(Num(180), Nearest(call.value, Num(0), Num(1))))
    /\ Le(Num(0), ret.num) /\ Le(ret.num, Num(180))
    /\ call.value = Num(0) => ret.num = Num(180)
    /\ call.value = Num(1) => ret.num = Num(0)

\* C8, the part the code keeps: the same for every p that is not NaN.
C8_HoldsUnlessNaN == ~IsNaN(call.value) => C8_AngleOfPercentage

\* C9: no operation of the gauge math throws, whatever its numeric arguments.
C9_NeverThrows == ~ret.threw

\* C9, the part the code keeps: the only call that throws is formatDisplayValue
\* of a value that is not an integer with a negative decimalPlaces.
C9_OnlyToFixedThrows ==
  ret.threw =>
    /\ call.op = "formatDisplayValue"
    /\ ~NumberIsInteger(call.value)
    /\ call.decimalPlaces < 0

(***************************************************************************)
(* Reading a rendered number back.                                         *)
(***************************************************************************)
DigitChars == {DigitChar(i) : i \in 0 .. 9}

DigitValue(c) == CHOOSE i \in 0 .. 9 : DigitChar(i) = c

\* the natural number a sequence of digits writes
RECURSIVE NatOf(_)
NatOf(ds) ==
  IF ds = <<>> THEN 0 ELSE 10 * NatOf(SubSeq(ds, 1, Len(ds) - 1)) + DigitValue(ds[Len(ds)])

AllDigits(ds) == ds # <<>> /\ \A i \in DOMAIN ds : ds[i] \in DigitChars

\* the text without its leading minus sign
Unsigned(text) == IF text # <<>> /\ text[1] = "-" THEN Tail(text) ELSE text

\* the positions of the decimal point
Points(text) == {i \in DOMAIN text : text[i] = "."}

\* the text is an integer numeral: an optional sign and digits
IsIntegerNumeral(text) == AllDigits(Unsigned(text))

\* the text is a numeral with exactly f digits after a decimal point
IsDecimalNumeral(text, f) ==
  LET u == Unsigned(text)
  IN  /\ Len(u) > f + 1
      /\ u[Len(u) - f] = "."
      /\ AllDigits(SubSeq(u, 1, Len(u) - f - 1))
      /\ AllDigits(SubSeq(u, Len(u) - f + 1, Len(u)))

\* the number an integer numeral, or a numeral with f fractional digits, writes
Written(text, f) ==
  LET u == Unsigned(text)
      s == IF text[1] = "-" THEN -1 ELSE 1
      w == IF f = 0 THEN NatOf(u)
           ELSE NatOf(SubSeq(u, 1, Len(u) - f - 1)) * Pow10(f)
                  + NatOf(SubSeq(u, Len(u) - f + 1, Len(u)))
  IN  Fin(s * w, Pow10(f))

\* |a - b| <= 1 / (2 * 10^f), for finite a and b
Within(a, b, f) ==
  LET diff == Sub(a, b)
  IN  2 * Pow10(f) * AbsInt(diff.n) <= diff.d

\* C10: for a finite value and decimalPlaces >= 0, the text is the nearest
\* integer with no decimal point when the value is an integer or decimalPlaces
\* is 0, and otherwise the value rounded to exactly decimalPlaces fractional
\* digits; (3, 1) gives "3", (3.456, 1) gives "3.5" and (3.456, 0) gives "3".
C10_FormatDisplayValue ==
  (call.op = "formatDisplayValue" /\ IsFinite(call.value) /\ call.decimalPlaces >= 0) =>
    /\ ~ret.threw
    /\ IF NumberIsInteger(call.value) \/ call.decimalPlaces = 0
       THEN /\ Points(ret.text) = {}
            /\ IsIntegerNumeral(ret.text)
            /\ Within(Written(ret.text, 0), call.value, 0)
       ELSE /\ IsDecimalNumeral(ret.text, call.decimalPlaces)
            /\ Within(Written(ret.text, call.decimalPlaces), call.value, call.decimalPlaces)
    /\ (call.value = Num(3) /\ call.decimalPlaces = 1) => ret.text = <<"3">>
    /\ (call.value = ExampleValue /\ call.decimalPlaces = 1) => ret.text = <<"3", ".", "5">>
    /\ (call.value = ExampleValue /\ call.decimalPlaces = 0) => ret.text = <<"3">>

\* C10 witness: 3.456 rendered with one decimal place.
C10_Witness ==
  /\ call.op = "formatDisplayValue"
  /\ call.value = ExampleValue
  /\ call.decimalPlaces = 1
  /\ ret.text = <<"3", ".", "5">>

(***************************************************************************)
(* Properties of the zone arcs.                                            *)
(***************************************************************************)
\* C11: zoneToArcAngles returns the angle of zoneStart and the angle of zoneEnd,
\* each taken by itself; for zoneStart <= zoneEnd and rangeMin < rangeMax the
\* start angle is >= the end angle and both lie in [0, 180].
C11_ZoneArcAngles ==
  call.op = "zoneToArcAngles" =>
    /\ ret.num = valueToAngle(call.value, call.min, call.max)
    /\ ret.endAngle = valueToAngle(call.zoneEnd, call.min, call.max)
    /\ (Le(call.value, call.zoneEnd) /\ Lt(call.min, call.max)) =>
         /\ Ge(ret.num, ret.endAngle)
         /\ Le(Num(0), ret.endAngle) /\ Le(ret.num, Num(180))

\* C11 witness: a zone inside the range, whose start angle is above its end angle.
C11_Witness ==
  /\ call.op = "zoneToArcAngles"
  /\ Lt(call.min, call.value) /\ Lt(call.value, call.zoneEnd) /\ Lt(call.zoneEnd, call.max)
  /\ Gt(ret.num, ret.endAngle)

(***************************************************************************)
(* Properties of the arc geometry.                                         *)
(***************************************************************************)
\* an angle of the gauge: from 0 to 180 degrees
GaugeAngle(a) == Le(Num(0), a) /\ Le(a, Num(180))

\* C12: describeArc returns the path M startX startY A r r 0 largeArc 0 endX
\* endY whose end points are polarToCartesian of the two angles, whose sweep
\* flag is 0 and whose large-arc flag is 1 exactly when the two angles differ
\* by more than 180 degrees; for two gauge angles, and for the full arc from
\* 180 to 0, the large-arc flag is 0.
C12_ArcFlags ==
  /\ call.op = "describeArc" =>
       LET start == polarToCartesian(call.centerX, call.centerY, call.radius, call.value)
           end == polarToCartesian(call.centerX, call.centerY, call.radius, call.zoneEnd)
           far == \/ Gt(Sub(call.value, call.zoneEnd), Num(180))
                  \/ Gt(Sub(call.zoneEnd, call.value), Num(180))
       IN  /\ ret.path = <<[cmd |-> "M", num |-> Num(0)],
                           [cmd |-> "", num |-> start.x], [cmd |-> "", num |-> start.y],
                           [cmd |-> "A", num |-> Num(0)],
                           [cmd |-> "", num |-> call.radius],
                           [cmd |-> "", num |-> call.radius],
                           [cmd |-> "", num |-> Num(0)],
                           [cmd |-> "", num |-> IF far THEN Num(1) ELSE Num(0)],
                           [cmd |-> "", num |-> Num(0)],
                           [cmd |-> "", num |-> end.x], [cmd |-> "", num |-> end.y]>>
           /\ (GaugeAngle(call.value) /\ GaugeAngle(call.zoneEnd)) =>
                ret.path[8].num = Num(0)
  /\ call.op = "describeFullArc" =>
       /\ ret.path[8].num = Num(0) /\ ret.path[9].num = Num(0)
       /\ ret.path[2].num = polarToCartesian(call.centerX, call.centerY,
                                             call.radius, Num(180)).x
       /\ ret.path[10].num = polarToCartesian(call.centerX, call.centerY,
                                              call.radius, Num(0)).x

\* an arc of more than half a turn: the large-arc flag is set
C12_Witness ==
  /\ call.op = "describeArc"
  /\ Gt(Sub(call.value, call.zoneEnd), Num(180))
  /\ ret.path[8].num = Num(1) /\ ret.path[9].num = Num(0)

\* C13 as stated: polarToCartesian returns (cx - r, cy) at 180 degrees,
\* (cx + r, cy) at 0 degrees and (cx, cy - r) at 90 degrees.
C13_ExactCardinalPoints ==
  call.op = "polarToCartesian" =>
    /\ call.value = Num(180) =>
         ret.x = Sub(call.centerX, call.radius) /\ ret.y = call.centerY
    /\ call.value = Num(0) =>
         ret.x = Add(call.centerX, call.radius) /\ ret.y = call.centerY
    /\ call.value = Num(90) =>
         ret.x = call.centerX /\ ret.y = Sub(call.centerY, call.radius)

\* the distance of a from b is at most r times the error of four quarter turns
NearlyEqual(a, b, r) == Le(MathAbs(Sub(a, b)), Mul(MathAbs(r), TrigEps(4)))

\* C13: polarToCartesian returns exactly (cx + r, cy) at 0 degrees; at 180
\* degrees x is exactly cx - r and y is cy - r * Math.sin(Math.PI), within
\* the rounding error of cy; at 90 degrees y is exactly cy - r and x is
\* cx + r * Math.cos(Math.PI / 2), within the rounding error of cx.
C13_CardinalPointsRounded ==
  call.op = "polarToCartesian" =>
    /\ call.value = Num(180) =>
         /\ ret.x = Sub(call.centerX, call.radius)
         /\ ret.y = Sub(call.centerY, Mul(call.radius, MathSin(Num(1))))
         /\ NearlyEqual(ret.y, call.centerY, call.radius)
    /\ call.value = Num(0) =>
         ret.x = Add(call.centerX, call.radius) /\ ret.y = call.centerY
    /\ call.value = Num(90) =>
         /\ ret.x = Add(call.centerX, Mul(call.radius, MathCos(Fin(1, 2))))
         /\ NearlyEqual(ret.x, call.centerX, call.radius)
         /\ ret.y = Sub(call.centerY, call.radius)

\* the left end of the arc around the origin: y is not the centre's y
C13_Witness ==
  /\ call.op = "polarToCartesian"
  /\ call.value = Num(180) /\ call.centerX = Num(0) /\ call.centerY = Num(0)
  /\ ret.x = Neg(call.radius) /\ ret.y # call.centerY

(***************************************************************************)
(* Properties of the configured ranges.                                    *)
(***************************************************************************)
\* min < max, the zones ascend, each has start <= end, the first starts at
\* min, the last ends at max and each ends where the next starts
WellFormed(range) ==
  LET zones == range.zones
      n == Len(zones)
  IN  /\ Lt(range.min, range.max)
      /\ n > 0
      /\ \A i \in 1 .. n : Le(zones[i].start, zones[i].end)
      /\ \A i \in 1 .. n - 1 :
           /\ Le(zones[i].start, zones[i + 1].start)
           /\ zones[i].end = zones[i + 1].start
      /\ zones[1].start = range.min
      /\ zones[n].end = range.max

\* C14: each of the six configured ranges is well formed, and the classifier
\* does not reach its 'red' fallback for a finite value.
C14_WellFormedRanges ==
  /\ \A key \in MetricKey : WellFormed(REFERENCE_RANGES[key])
  /\ (call.op = "getZoneForValue" /\ IsFinite(call.value)) => ~ret.fallback

\* a finite value between two zones' starts is classified by a zone
C14_Witness ==
  /\ call.op = "getZoneForValue"
  /\ IsFinite(call.value)
  /\ \E i \in DOMAIN REFERENCE_RANGES[call.metricKey].zones :
       LET zone == REFERENCE_RANGES[call.metricKey].zones[i]
       IN  i > 1 /\ Lt(zone.start, call.value) /\ Lt(call.value, zone.end)
  /\ ~ret.fallback

\* C15: for Mean Flow (min 0, max 200, zones [0,15] red, [15,30] yellow,
\* [30,200] green) and the value 10, the classifier returns 'red',
\* valueToPercentage returns 0.05 and valueToAngle returns 171.
C15_MeanFlowScenario ==
  /\ REFERENCE_RANGES["MF"] =
       [min |-> Num(0), max |-> Num(200),
        zones |-> <<[start |-> Num(0), end |-> Num(15), type |-> "red"],
                    [start |-> Num(15), end |-> Num(30), type |-> "yellow"],
                    [start |-> Num(30), end |-> Num(200), type |-> "green"]>>]
  /\ (call.op = "getZoneForValue" /\ call.metricKey = "MF" /\ call.value = Num(10)) =>
       ret.zone = "red"
  /\ (/\ call.op \in {"valueToPercentage", "valueToAngle"}
      /\ call.value = Num(10) /\ call.min = Num(0) /\ call.max = Num(200)) =>
       ret.num = (IF call.op = "valueToAngle" THEN Num(171) ELSE Fin(5, 100))

\* the needle angle of the scenario has been computed
C15_Witness ==
  /\ call.op = "valueToAngle"
  /\ call.value = Num(10) /\ call.min = Num(0) /\ call.max = Num(200)
  /\ ret.num = Num(171)

(***************************************************************************)
(* Properties of the rendered gauge.                                       *)
(***************************************************************************)
\* C17: the fill percentage Gauge computes is 100 * valueToPercentage(value,
\* min, max), for every value and every range, and lies in [0, 100].
C17_FillIsPercentage ==
  call.op = "Gauge" =>
    /\ ret.num = Mul(Num(100), valueToPercentage(call.value, call.min, call.max))
    /\ Le(Num(0), ret.num) /\ Le(ret.num, Num(100))

\* C17, the part the code keeps: on a range with min < max and for a value
\* that is not NaN the fill percentage is 100 * valueToPercentage and lies in
\* [0, 100].
C17_HoldsOnProperRanges ==
  (call.op = "Gauge" /\ Lt(call.min, call.max) /\ ~IsNaN(call.value)) =>
    /\ ret.num = Mul(Num(100), valueToPercentage(call.value, call.min, call.max))
    /\ Le(Num(0), ret.num) /\ Le(ret.num, Num(100))

\* C18: for a configured metric and a finite value, the category the
\* classifier returns is the type of a zone whose arc, as zoneToArcAngles
\* gives it, contains the angle of the needle.
C18_CategoryOfNeedleBand ==
  (call.op \in {"getZoneForValue", "GaugeCard"} /\ IsFinite(call.value)) =>
    LET range == REFERENCE_RANGES[call.metricKey]
        needle == calculateNeedlePosition(call.value, range.min, range.max,
                                          Num(100), Num(100), Num(80)).angle
    IN  \E i \in DOMAIN range.zones :
          LET arc == zoneToArcAngles(range.zones[i].start, range.zones[i].end,
                                     range.min, range.max)
          IN  /\ range.zones[i].type = ret.zone
              /\ Le(arc.endAngle, needle) /\ Le(needle, arc.startAngle)

\* a card whose value lies beyond the range, coloured as the last band
C18_Witness ==
  /\ call.op = "GaugeCard"
  /\ IsFinite(call.value) /\ Gt(call.value, call.max)
  /\ ret.zone = REFERENCE_RANGES[call.metricKey].zones[
                  Len(REFERENCE_RANGES[call.metricKey].zones)].type

(***************************************************************************)
(* The two screens.  parseFloat skips leading white space and reads the    *)
(* longest prefix that is a decimal literal: a sign, then Infinity or      *)
(* digits with at most one point (the texts tried carry no exponent).      *)
(***************************************************************************)
RECURSIVE TrimStart(_)
TrimStart(s) == IF s # <<>> /\ Head(s) = " " THEN TrimStart(Tail(s)) ELSE s

RECURSIVE LeadingDigits(_)
LeadingDigits(s) ==
  IF s # <<>> /\ Head(s) \in DigitChars THEN <<Head(s)>> \o LeadingDigits(Tail(s)) ELSE <<>>

parseFloat(string) ==
  LET s == TrimStart(string)
      signed == s # <<>> /\ Head(s) \in {"-", "+"}
      body == IF signed THEN Tail(s) ELSE s
      whole == LeadingDigits(body)
      rest == SubSeq(body, Len(whole) + 1, Len(body))
      frac == IF rest # <<>> /\ Head(rest) = "." THEN LeadingDigits(Tail(rest)) ELSE <<>>
      magnitude ==
        IF body # <<>> /\ Head(body) = "Infinity" THEN Infinity
        ELSE IF whole = <<>> /\ frac = <<>> THEN NaN
        ELSE Fin(NatOf(whole) * Pow10(Len(frac)) + NatOf(frac), Pow10(Len(frac)))
  IN  IF signed /\ Head(s) = "-" THEN Neg(magnitude) ELSE magnitude

\* the number of digits x.toString() writes after the point, for a number
\* with a finite decimal expansion
RECURSIVE FractionDigits(_, _)
FractionDigits(x, f) ==
  IF (x.n * Pow10(f)) % x.d = 0 THEN f ELSE FractionDigits(x, f + 1)

\* x.toString() for such a number (below 1e21 and not below 1e-6 in size)
NumberToDecimalString(x) ==
  IF x.k # "fin" \/ x.d = 1 THEN NumberToString(x)
  ELSE NumberToFixed(x, FractionDigits(x, 1)).text

\* a variant of handleInputChange: the other entries are taken from the default
handleInputChangeFromDefault(prev, key, value) ==
  [DEFAULT_INPUT_STATE EXCEPT ![key] = value]

\* the updater of handleInputChange: (prev) => ({ ...prev, [key]: value })
handleInputChange(prev, key, value) == [prev EXCEPT ![key] = value]

\* params[key] = isNaN(parsed) ? '0' : parsed.toString()
ParamOfInput(text) ==
  LET parsed == parseFloat(text)
  IN  IF IsNaN(parsed) THEN <<"0">> ELSE NumberToDecimalString(parsed)

\* a variant of MetricValue: the parsed number is not tested
MetricValueUnchecked(paramValue) ==
  IF paramValue.type = "string" THEN parseFloat(paramValue.text) ELSE Num(0)

\* the body of the forEach of metricValues
MetricValue(paramValue) ==
  IF paramValue.type = "string"
  THEN LET parsed == parseFloat(paramValue.text)
       IN  IF IsNaN(parsed) THEN Num(0) ELSE parsed
  ELSE Num(0)

\* useMemo(..., [params]): the values of the results screen
metricValues == [key \in MetricKey |-> MetricValue(params[key])]

\* the props of the six cards the results screen renders
GaugeCardProps ==
  [key \in MetricKey |->
    [metricKey |-> key, value |-> metricValues[key], range |-> REFERENCE_RANGES[key]]]

\* the screen shown
Screen == stack[Len(stack)]

\* the texts typed or pasted into a field
Texts ==
  { <<>>, <<"1", "2">>, <<"3", ".", "5">>, <<"1", ".">>, <<".", "5">>, <<"-", "2">>,
    <<"-">>, <<"a", "7">>, <<" ", "7", "a">>, <<"Infinity">> }

\* onChangeText of the field of a metric
HandleInputChange ==
  /\ Screen = "/"
  /\ Len(edits) < MaxEdits
  /\ \E key \in MetricKey, text \in Texts :
       /\ inputState' = handleInputChange(inputState, key, text)
       /\ edits' = Append(edits, [key |-> key, text |-> text])
  /\ UNCHANGED <<call, ret, stack, params>>

\* onPress of View Results: the parameters are built and the results route
\* is pushed
HandleViewResults ==
  /\ Screen = "/"
  /\ params' = [key \in MetricKey |-> StringParam(ParamOfInput(inputState[key]))]
  /\ stack' = Append(stack, "/results")
  /\ UNCHANGED <<call, ret, inputState, edits>>

\* the back button of the Stack navigator: the results route is popped
GoBack ==
  /\ Screen = "/results"
  /\ Len(stack) > 1
  /\ stack' = SubSeq(stack, 1, Len(stack) - 1)
  /\ params' = NoParams
  /\ UNCHANGED <<call, ret, inputState, edits>>

\* the app is opened at the results route by a URL, which carries some of the
\* parameters as text, some twice and some not at all
OpenResultsUrl ==
  /\ stack = <<"/">> /\ edits = <<>>
  /\ \E carried \in SUBSET MetricKey, repeated \in SUBSET MetricKey, text \in Texts :
       /\ carried \cap repeated = {}
       /\ params' = [key \in MetricKey |->
                       IF key \in carried THEN StringParam(text)
                       ELSE IF key \in repeated THEN ArrayParam
                       ELSE UndefinedParam]
  /\ stack' = <<"/results">>
  /\ UNCHANGED <<call, ret, inputState, edits>>

AppNext ==
  \/ HandleInputChange
  \/ HandleViewResults
  \/ GoBack
  \/ OpenResultsUrl

AppSpec == Init /\ [][AppNext]_vars

(***************************************************************************)
(* Properties of the screens.                                              *)
(***************************************************************************)
\* C16: on the results screen each of the six values handed to a GaugeCard
\* is a number that is not NaN; it is 0 where the URL parameter is missing or
\* does not parse, and after View Results it is 0 where the text of the
\* field does not parse and the number the text parses to otherwise.
C16_ValuesAreNumbers ==
  Screen = "/results" =>
    \A key \in MetricKey :
      LET value == GaugeCardProps[key].value
      IN  /\ ~IsNaN(value)
          /\ params[key].type # "string" => value = Num(0)
          /\ (params[key].type = "string" /\ IsNaN(parseFloat(params[key].text))) =>
               value = Num(0)
          /\ Len(stack) > 1 =>
               value = (IF IsNaN(parseFloat(inputState[key])) THEN Num(0)
                        ELSE parseFloat(inputState[key]))

\* View Results after an edit that does not parse and an edit that does
C16_Witness ==
  /\ stack = <<"/", "/results">>
  /\ \E key \in MetricKey :
       /\ inputState[key] # <<>> /\ IsNaN(parseFloat(inputState[key]))
       /\ GaugeCardProps[key].value = Num(0)
  /\ \E key \in MetricKey : GaugeCardProps[key].value = Fin(7, 2)

\* the text of the last edit of the metric, empty when it was never edited
LastEdit(key) ==
  LET of == {i \in DOMAIN edits : edits[i].key = key}
  IN  IF of = {} THEN <<>> ELSE edits[CHOOSE i \in of : \A j \in of : j <= i].text

\* C19: each metric's stored text is the text of its most recent edit, or
\* empty if it was never edited; a step changes the text of a metric only if
\* it is an edit of that metric, and a step that changes the screen (View
\* Results, back) leaves the input state as it was.
C19_InputFrame ==
  /\ [](\A key \in MetricKey : inputState[key] = LastEdit(key))
  /\ [][\A key \in MetricKey :
          inputState'[key] # inputState[key] =>
            /\ Len(edits') = Len(edits) + 1
            /\ edits'[Len(edits')].key = key]_vars
  /\ [][stack' # stack => inputState' = inputState]_vars

\* two metrics were edited, one of them first, and View Results pressed
C19_Witness ==
  /\ stack = <<"/", "/results">>
  /\ Len(edits) = 2 /\ edits[1].key # edits[2].key
  /\ edits[1].text # <<>> /\ edits[2].text # <<>>
  /\ inputState[edits[1].key] = edits[1].text
  /\ inputState[edits[2].key] = edits[2].text

====
